---- MODULE Spec2Model ----
(***************************************************************************)
(* A model of the MagiTrickle / kvas2 daemon: the DNS records store, the   *)
(* answer handlers of the app, Group.Sync, and the firewall rules a group  *)
(* owns.  Time is counted in whole seconds.                                *)
(***************************************************************************)
EXTENDS Integers, Sequences, FiniteSets, TLC

VARIABLES
    now,           \* time.Now(), in seconds
    aRecords,      \* Records.aRecords     : name -> addr   -> deadline
    cnameRecords,  \* Records.cnameRecords : name -> target -> deadline
    qpc,           \* position of the one reader running Records.GetCNameRecords
    qrec,          \* its `recursive` argument
    qname,         \* its domainName argument
    qstack,        \* the call stack of Records.getCNames
    qresult,       \* the list GetCNameRecords returned
    expanded,      \* how often getCNames was entered for each name in this query
    rules,         \* Group.Rules of every group of App.groups
    additionalTTL, \* config.Netfilter.IPSet.AdditionalTTL
    conv,          \* what this build's float64 -> uint32 conversion does to a negative value
    ipset,         \* the kernel IP-set of every group: addr -> remaining timeout
    lastAct,       \* the handler that ran last, with its arguments
    lastOps,       \* the IP-set calls that handler issued, in order
    fixProtect,    \* Group.FixProtect of every group
    enabled,       \* Group.enabled of every group
    fw,            \* the rules in the kernel's iptables and ip6tables
    dnsOverrider,  \* App.dnsOverrider: "nil" when disable_remap_53 is set
    crashed,       \* the process died of a panic outside Start's recover
    flushed,       \* somebody else has flushed a table
    lastFw,        \* the firewall operation that ran last
    config,        \* App.config: disable_remap_53, disable_fake_ptr
    unprocessedGroups, \* App.unprocessedGroups: the groups of the imported configuration
    groups,        \* App.groups
    isRunning,     \* App.isRunning
    spc,           \* position of the goroutine that called Start
    idx,           \* index of the range loop start is in
    deferred,      \* the deferred calls of start, the one to run first in front
    panicking,     \* start is unwinding because of a panic
    startErr,      \* the error start is returning
    result,        \* what the last call of Start returned
    run,           \* this run of start: its number, whether it reached the event loop, why it left
    tdLog,         \* the teardown calls of this run, in the order they ran
    ctxDone,       \* the context passed to Start is cancelled
    newCtxDone,    \* the context derived for the listeners and the acceptor is cancelled
    listeners,     \* the UDP and TCP listener goroutines of every run
    acceptor,      \* the control-socket acceptor goroutine of every run
    socket,        \* the control socket: "none", "open", "closed"
    socketFile,    \* the file of the control socket exists
    linkSub,       \* the link-update subscription: "none", "open", "closed"
    ipsets,        \* the ids of the groups whose IP-set exists in the kernel
    lastCall,      \* the AddGroup call that ran last, with what it returned
    reqMsg,        \* the request the DNS proxy hands to RequestHook
    hookRet,       \* what RequestHook returned for it
    gpc,           \* position of every goroutine calling the records store
    gop,           \* the call it makes
    lock,          \* how it holds Records.mutex: "none", "R", "W"
    gret           \* what its call returned and purged

vars == <<now, aRecords, cnameRecords, qpc, qrec, qname, qstack, qresult, expanded,
          rules, additionalTTL, conv, ipset, lastAct, lastOps,
          fixProtect, enabled, fw, dnsOverrider, crashed, flushed, lastFw,
          config, unprocessedGroups, groups, isRunning, spc, idx, deferred, panicking,
          startErr, result, run, tdLog, ctxDone, newCtxDone, listeners, acceptor,
          socket, socketFile, linkSub, ipsets, lastCall, reqMsg, hookRet,
          gpc, gop, lock, gret>>

runVars == <<config, unprocessedGroups, groups, isRunning, spc, idx, deferred, panicking,
             startErr, result, run, tdLog, ctxDone, newCtxDone, listeners, acceptor,
             socket, socketFile, linkSub, ipsets, lastCall>>

hookVars == <<reqMsg, hookRet>>

lockVars == <<gpc, gop, lock, gret>>

restVars == <<runVars, hookVars, lockVars>>

fwVars == <<fixProtect, enabled, fw, dnsOverrider, crashed, flushed, lastFw>>

appVars == <<rules, additionalTTL, conv, ipset, lastAct, lastOps>>

recVars == <<aRecords, cnameRecords>>

queryVars == <<qpc, qrec, qname, qstack, qresult, expanded>>

----------------------------------------------------------------------------
(* Bounds of the model *)

\* the clock stops here
MaxNow == 2

\* largest TTL handed to the records store of records.go
MaxPutTTL == 2

\* getCNames recursion is cut off at this depth
MaxDepth == 4

\* entries the two maps of the store hold together
MaxRecords == 2

\* names and addresses seen in answers
Names == {"a.cdn", "svc.corp"}

Addrs == {"ip4", "ip6"}

\* marks a (name, key) pair without an entry in a records map
NoRec == -1

PutTTLs == 1..MaxPutTTL

----------------------------------------------------------------------------
(* Helpers *)

ToSet(s) == {s[i] : i \in 1..Len(s)}

\* every order a Go map iteration can deliver the keys of S in
Orders(S) == {s \in [1..Cardinality(S) -> S] : \A i, j \in 1..Cardinality(S) : s[i] = s[j] => i = j}

----------------------------------------------------------------------------
(* Records store, records.go *)

\* aRecords and cnameRecords of NewRecords(): no entry under any name
NewARecords == [n \in Names |-> [k \in Addrs |-> NoRec]]

NewCNameRecords == [n \in Names |-> [k \in Names |-> NoRec]]

\* time.Now().Sub(ttl).Nanoseconds() > 0
Expired(deadline) == now > deadline

\* the entries of one inner map that the purge loop keeps
Purged(m) == [k \in DOMAIN m |-> IF m[k] # NoRec /\ Expired(m[k]) THEN NoRec ELSE m[k]]

LiveKeys(m) == {k \in DOMAIN m : m[k] # NoRec /\ ~Expired(m[k])}

Stored(m) == {p \in Names \X (Names \cup Addrs) : p[2] \in DOMAIN m[p[1]] /\ m[p[1]][p[2]] # NoRec}

\* the store has room for an entry under (domainName, key) of map m
HasRoom(m, domainName, key) ==
    \/ m[domainName][key] # NoRec
    \/ Cardinality(Stored(aRecords)) + Cardinality(Stored(cnameRecords)) < MaxRecords

\* r.cnameRecords[domainName][cName] = time.Now().Add(ttl seconds)
PutCNameRecord(domainName, cName, ttl) ==
    /\ qpc # "running"
    /\ HasRoom(cnameRecords, domainName, cName)
    /\ cnameRecords' = [cnameRecords EXCEPT ![domainName][cName] = now + ttl]
    /\ UNCHANGED <<now, aRecords, queryVars, appVars, fwVars, restVars>>

PutDeadline(old, ttl) == now + ttl

\* r.aRecords[domainName][string(addr)] = time.Now().Add(ttl seconds)
PutARecord(domainName, addr, ttl) ==
    /\ qpc # "running"
    /\ HasRoom(aRecords, domainName, addr)
    /\ aRecords' = [aRecords EXCEPT ![domainName][addr] = PutDeadline(@, ttl)]
    /\ UNCHANGED <<now, cnameRecords, queryVars, appVars, fwVars, restVars>>

\* the first loop of getCNames: purge the expired targets of domainName, list the others
ScanFrame(domainName, order) == [name |-> domainName, list |-> order, i |-> 0, origLen |-> Len(order)]

\* GetCNameRecords(domainName, recursive): RLock, then getCNames is entered
GetCNameRecords(domainName, recursive) ==
    /\ qpc = "idle"
    /\ \E order \in Orders(LiveKeys(cnameRecords[domainName])) :
          qstack' = <<ScanFrame(domainName, order)>>
    /\ cnameRecords' = [cnameRecords EXCEPT ![domainName] = Purged(@)]
    /\ qpc' = "running"
    /\ qrec' = recursive
    /\ qname' = domainName
    /\ expanded' = [expanded EXCEPT ![domainName] = @ + 1]
    /\ UNCHANGED <<now, aRecords, qresult, appVars, fwVars, restVars>>

\* parentList := r.getCNames(cNameList[i], true)
getCNamesCall ==
    /\ qpc = "running"
    /\ qrec
    /\ Len(qstack) < MaxDepth
    /\ LET top == qstack[Len(qstack)]
       IN /\ top.i < top.origLen
          /\ LET callee == top.list[top.i + 1]
             IN /\ \E order \in Orders(LiveKeys(cnameRecords[callee])) :
                      qstack' = Append(qstack, ScanFrame(callee, order))
                /\ cnameRecords' = [cnameRecords EXCEPT ![callee] = Purged(@)]
                /\ expanded' = [expanded EXCEPT ![callee] = @ + 1]
    /\ UNCHANGED <<now, aRecords, qpc, qrec, qname, qresult, appVars, fwVars, restVars>>

\* return cNameList; the caller appends it and moves to its next element
getCNamesReturn ==
    /\ qpc = "running"
    /\ LET top == qstack[Len(qstack)]
           rest == SubSeq(qstack, 1, Len(qstack) - 1)
       IN /\ (~qrec \/ top.i = top.origLen)
          /\ IF rest = <<>>
                THEN /\ qresult' = top.list
                     /\ qpc' = "done"
                     /\ qstack' = <<>>
                ELSE /\ qstack' = [rest EXCEPT ![Len(rest)] =
                                      [@ EXCEPT !.list = @ \o top.list, !.i = @ + 1]]
                     /\ UNCHANGED <<qresult, qpc>>
    /\ UNCHANGED <<now, recVars, qrec, qname, expanded, appVars, fwVars, restVars>>

\* the caller of GetCNameRecords drops the result
QueryReset ==
    /\ qpc = "done"
    /\ qpc' = "idle"
    /\ qresult' = <<>>
    /\ qrec' = TRUE
    /\ qname' = "a.cdn"
    /\ expanded' = [n \in Names |-> 0]
    /\ UNCHANGED <<now, recVars, qstack, appVars, fwVars, restVars>>

ClockTick ==
    /\ now < MaxNow
    /\ now' = now + 1
    /\ UNCHANGED <<recVars, queryVars, appVars, fwVars, restVars>>

InitQuery ==
    /\ qpc = "idle"
    /\ qrec = TRUE
    /\ qname = "a.cdn"
    /\ qstack = <<>>
    /\ qresult = <<>>
    /\ expanded = [n \in Names |-> 0]

\* the app part at rest: no group, nothing handled
AppIdle ==
    /\ rules = <<>>
    /\ additionalTTL = 0
    /\ conv = "wrap"
    /\ ipset = <<>>
    /\ lastAct = [kind |-> "none"]
    /\ lastOps = <<>>

\* the firewall part at rest: no group, no rule
FwIdle ==
    /\ fixProtect = <<>>
    /\ enabled = <<>>
    /\ fw = {}
    /\ dnsOverrider = "nil"
    /\ crashed = FALSE
    /\ flushed = FALSE
    /\ lastFw = [kind |-> "none"]

\* the app before Start is called: New()
RunIdle ==
    /\ config = [disableRemap53 |-> FALSE, disableFakePTR |-> FALSE]
    /\ unprocessedGroups = <<>>
    /\ groups = <<>>
    /\ isRunning = FALSE
    /\ spc = "idle"
    /\ idx = 0
    /\ deferred = <<>>
    /\ panicking = FALSE
    /\ startErr = "nil"
    /\ result = "none"
    /\ run = [n |-> 0, looped |-> FALSE, cause |-> "none", cancelled |-> FALSE]
    /\ tdLog = <<>>
    /\ ctxDone = FALSE
    /\ newCtxDone = FALSE
    /\ listeners = <<>>
    /\ acceptor = <<>>
    /\ socket = "none"
    /\ socketFile = FALSE
    /\ linkSub = "none"
    /\ ipsets = {}
    /\ lastCall = [fn |-> "none"]

\* no request is in the proxy
HookIdle ==
    /\ reqMsg = [id |-> 0, question |-> <<>>]
    /\ hookRet = [called |-> FALSE]

\* no goroutine is in the records store
LockIdle ==
    /\ gpc = <<>>
    /\ gop = <<>>
    /\ lock = <<>>
    /\ gret = <<>>

InitRecords ==
    /\ now = 0
    /\ aRecords = NewARecords
    /\ cnameRecords = NewCNameRecords
    /\ InitQuery
    /\ AppIdle
    /\ FwIdle
    /\ RunIdle
    /\ HookIdle
    /\ LockIdle

NextRecords ==
    \/ \E d \in Names, c \in Names, t \in PutTTLs : PutCNameRecord(d, c, t)
    \/ \E d \in Names, a \in Addrs, t \in PutTTLs : PutARecord(d, a, t)
    \/ \E d \in Names, r \in BOOLEAN : GetCNameRecords(d, r)
    \/ getCNamesCall
    \/ getCNamesReturn
    \/ QueryReset
    \/ ClockTick

SpecRecords == InitRecords /\ [][NextRecords]_vars

----------------------------------------------------------------------------
(* Records store under its RWMutex: goroutines calling the four methods *)

\* the goroutines that call into the store: the handlers of the DNS proxy
Goroutines == {1, 2}

ReadOps == [fn : {"GetCNameRecords", "GetARecords"}, name : Names, recursive : BOOLEAN]

WriteOps == [fn : {"PutCNameRecord", "PutARecord"}]

NoOp == [fn |-> "none"]

\* the zero value of sync.RWMutex
Unlocked == [writer |-> 0, readers |-> {}]

\* the targets the first loop of getCNames lists for the names of S
Targets(S) == UNION {LiveKeys(cnameRecords[n]) : n \in S}

RECURSIVE Reached(_, _)
Reached(S, fuel) == IF fuel = 0 THEN S ELSE Reached(S \cup Targets(S), fuel - 1)

\* the names getCNames(domainName, recursive) is entered for
Scanned(domainName, recursive) ==
    IF recursive THEN Reached({domainName}, Cardinality(Names)) ELSE {domainName}

\* getCNames(domainName, true) comes back to a name it is in: the recursion has no end
Overflows(domainName, recursive) ==
    /\ recursive
    /\ \E n \in Scanned(domainName, TRUE) : n \in Reached(Targets({n}), Cardinality(Names))

\* the inner maps a read ranges over
Touches(op) ==
    IF op.fn = "GetCNameRecords"
       THEN {<<"cname", n>> : n \in Scanned(op.name, op.recursive)}
    ELSE IF op.fn = "GetARecords"
       THEN {<<"cname", n>> : n \in (IF op.recursive THEN Scanned(op.name, TRUE) ELSE {})}
            \cup {<<"a", n>> : n \in Scanned(op.name, op.recursive)}
    ELSE {}

InnerMap(t) == IF t[1] = "cname" THEN cnameRecords[t[2]] ELSE aRecords[t[2]]

\* the inner maps the read calls delete(...) on
Deletes(op) == {t \in Touches(op) : \E k \in DOMAIN InnerMap(t) : InnerMap(t)[k] # NoRec /\ Expired(InnerMap(t)[k])}

Writes(op) == op.fn \in {"PutCNameRecord", "PutARecord"}

\* goroutine g is between the lock and the unlock of a method that changes a map
Mutating(g) == gpc[g] = "locked" /\ (Writes(gop[g]) \/ Deletes(gop[g]) # {})

\* two goroutines are in the maps and one of them changes a map the other is in
Race ==
    \E g \in Goroutines, h \in Goroutines :
        /\ g # h
        /\ gpc[g] = "locked"
        /\ gpc[h] = "locked"
        /\ \/ Writes(gop[g])
           \/ Deletes(gop[g]) \cap Touches(gop[h]) # {}

otherVars == <<queryVars, appVars, runVars, hookVars>>

fwRest == <<fixProtect, enabled, fw, dnsOverrider, flushed, lastFw>>

\* r.mutex.RLock() of GetCNameRecords and GetARecords
RLock(g, op) ==
    /\ ~crashed
    /\ gpc[g] = "idle"
    /\ lock.writer = 0
    /\ lock' = [lock EXCEPT !.readers = @ \cup {g}]
    /\ gpc' = [gpc EXCEPT ![g] = "locked"]
    /\ gop' = [gop EXCEPT ![g] = op]
    /\ UNCHANGED <<now, recVars, gret, otherVars, fwVars>>

\* r.mutex.Lock() of PutCNameRecord and PutARecord
Lock(g, op) ==
    /\ ~crashed
    /\ gpc[g] = "idle"
    /\ lock = Unlocked
    /\ lock' = [lock EXCEPT !.writer = g]
    /\ gpc' = [gpc EXCEPT ![g] = "locked"]
    /\ gop' = [gop EXCEPT ![g] = op]
    /\ UNCHANGED <<now, recVars, gret, otherVars, fwVars>>

\* defer r.mutex.RUnlock() / defer r.mutex.Unlock()
Unlock(g) ==
    [writer |-> IF lock.writer = g THEN 0 ELSE lock.writer, readers |-> lock.readers \ {g}]

PurgedIn(m, S) == [n \in DOMAIN m |-> IF n \in S THEN Purged(m[n]) ELSE m[n]]

\* the body of GetCNameRecords: return r.getCNames(domainName, recursive)
getCNameRecordsBody(g) ==
    /\ ~crashed
    /\ gpc[g] = "locked"
    /\ gop[g].fn = "GetCNameRecords"
    /\ IF Overflows(gop[g].name, gop[g].recursive)
          THEN /\ crashed' = TRUE
               /\ UNCHANGED <<recVars, lockVars>>
          ELSE /\ cnameRecords' = PurgedIn(cnameRecords, Scanned(gop[g].name, gop[g].recursive))
               /\ gret' = [gret EXCEPT ![g] = Targets(Scanned(gop[g].name, gop[g].recursive))]
               /\ gpc' = [gpc EXCEPT ![g] = "ret"]
               /\ gop' = [gop EXCEPT ![g] = NoOp]
               /\ lock' = Unlock(g)
               /\ UNCHANGED <<aRecords, crashed>>
    /\ UNCHANGED <<now, otherVars, fwRest>>

\* the body of GetARecords: the names of cNameList, then the loop over their A records
getARecordsBody(g) ==
    /\ ~crashed
    /\ gpc[g] = "locked"
    /\ gop[g].fn = "GetARecords"
    /\ IF Overflows(gop[g].name, gop[g].recursive)
          THEN /\ crashed' = TRUE
               /\ UNCHANGED <<recVars, lockVars>>
          ELSE /\ cnameRecords' = PurgedIn(cnameRecords,
                                     IF gop[g].recursive THEN Scanned(gop[g].name, TRUE) ELSE {})
               /\ aRecords' = PurgedIn(aRecords, Scanned(gop[g].name, gop[g].recursive))
               /\ gret' = [gret EXCEPT ![g] =
                              UNION {LiveKeys(aRecords[n]) : n \in Scanned(gop[g].name, gop[g].recursive)}]
               /\ gpc' = [gpc EXCEPT ![g] = "ret"]
               /\ gop' = [gop EXCEPT ![g] = NoOp]
               /\ lock' = Unlock(g)
               /\ UNCHANGED crashed
    /\ UNCHANGED <<now, otherVars, fwRest>>

\* the caller drops the list it got
recordsReturn(g) ==
    /\ ~crashed
    /\ gpc[g] = "ret"
    /\ gpc' = [gpc EXCEPT ![g] = "idle"]
    /\ gret' = [gret EXCEPT ![g] = {}]
    /\ UNCHANGED <<now, recVars, gop, lock, otherVars, fwVars>>

\* the body of PutCNameRecord, and its deferred Unlock
putCNameRecordBody(g, domainName, cName, ttl) ==
    /\ ~crashed
    /\ gpc[g] = "locked"
    /\ gop[g].fn = "PutCNameRecord"
    /\ HasRoom(cnameRecords, domainName, cName)
    /\ cnameRecords' = [cnameRecords EXCEPT ![domainName][cName] = now + ttl]
    /\ gpc' = [gpc EXCEPT ![g] = "idle"]
    /\ gop' = [gop EXCEPT ![g] = NoOp]
    /\ lock' = Unlock(g)
    /\ UNCHANGED <<now, aRecords, gret, otherVars, fwVars>>

\* the body of PutARecord, and its deferred Unlock
putARecordBody(g, domainName, addr, ttl) ==
    /\ ~crashed
    /\ gpc[g] = "locked"
    /\ gop[g].fn = "PutARecord"
    /\ HasRoom(aRecords, domainName, addr)
    /\ aRecords' = [aRecords EXCEPT ![domainName][addr] = PutDeadline(@, ttl)]
    /\ gpc' = [gpc EXCEPT ![g] = "idle"]
    /\ gop' = [gop EXCEPT ![g] = NoOp]
    /\ lock' = Unlock(g)
    /\ UNCHANGED <<now, cnameRecords, gret, otherVars, fwVars>>

\* the Go runtime finds a map changed while another goroutine is in it:
\* fatal error: concurrent map iteration and map write
mapFault ==
    /\ ~crashed
    /\ Race
    /\ crashed' = TRUE
    /\ UNCHANGED <<now, recVars, lockVars, otherVars, fwRest>>

InitLock ==
    /\ now = 0
    /\ aRecords = NewARecords
    /\ cnameRecords = NewCNameRecords
    /\ InitQuery
    /\ AppIdle
    /\ FwIdle
    /\ RunIdle
    /\ HookIdle
    /\ gpc = [g \in Goroutines |-> "idle"]
    /\ gop = [g \in Goroutines |-> NoOp]
    /\ lock = Unlocked
    /\ gret = [g \in Goroutines |-> {}]

NextLock ==
    \/ \E g \in Goroutines, op \in ReadOps : RLock(g, op)
    \/ \E g \in Goroutines, op \in WriteOps : Lock(g, op)
    \/ \E g \in Goroutines : getCNameRecordsBody(g)
    \/ \E g \in Goroutines : getARecordsBody(g)
    \/ \E g \in Goroutines : recordsReturn(g)
    \/ \E g \in Goroutines, d \in Names, c \in Names, t \in PutTTLs : putCNameRecordBody(g, d, c, t)
    \/ \E g \in Goroutines, d \in Names, a \in Addrs, t \in PutTTLs : putARecordBody(g, d, a, t)
    \/ mapFault
    \/ ClockTick

SpecLock == InitLock /\ [][NextLock]_vars

----------------------------------------------------------------------------
(* Records store as the app calls it.  The package the app imports is not   *)
(* among the sources; these operators follow sections 3 and 4.2 of the      *)
(* specification.                                                           *)

\* "every record with deadline <= now is removed on next read of that key"
Dead(deadline) == deadline <= now

LiveEntries(m) == {k \in DOMAIN m : m[k] # NoRec /\ ~Dead(m[k])}

DropDead(m) == [k \in DOMAIN m |-> IF m[k] # NoRec /\ Dead(m[k]) THEN NoRec ELSE m[k]]

\* put_a(name, addr, ttl): a_records[name][addr] = now + ttl
AddARecord(recs, name, addr, ttl) == [recs EXCEPT ![name][addr] = now + ttl]

\* put_cname(name, target, ttl): same shape
AddCNameRecord(recs, name, target, ttl) == [recs EXCEPT ![name][target] = now + ttl]

\* the names whose live CNAME entry names a member of S, added to S
AliasStep(cnames, S) == S \cup {n \in Names : \E m \in S : m \in LiveEntries(cnames[n])}

RECURSIVE AliasClosure(_, _, _)
AliasClosure(cnames, S, fuel) ==
    IF fuel = 0 \/ AliasStep(cnames, S) = S THEN S
    ELSE AliasClosure(cnames, AliasStep(cnames, S), fuel - 1)

\* aliases(name) = {name} \cup {n : cname(n) resolves transitively to name}
GetAliases(cnames, name) == AliasClosure(cnames, {name}, Cardinality(Names))

\* aliases purges the expired CNAME entries it walks over
PurgeCNames(cnames) == [n \in Names |-> DropDead(cnames[n])]

\* get_a(name): the live A/AAAA entries of name, no recursion
GetARecords(recs, name) == {a \in Addrs : a \in LiveEntries(recs[name])}

\* list_known_domains(): the keys of the two maps
ListKnownDomains(recs, cnames) ==
    {n \in Names : (\E k \in DOMAIN recs[n] : recs[n][k] # NoRec)
                   \/ (\E k \in DOMAIN cnames[n] : cnames[n][k] # NoRec)}

----------------------------------------------------------------------------
(* Kernel IP-set of a group, as the firewall adapter of section 4.1 gives it *)

\* an address that is not in the set
NoEntry == -1

\* an entry without timeout: ListIPs returns nil for it
NoTimeout == -2

NewIPSet == [a \in Addrs |-> NoEntry]

\* add(addr, ttl) and del(addr) of the set handle
ApplyOp(set, op) ==
    IF op.op = "AddIP" THEN [set EXCEPT ![op.addr] = op.ttl]
    ELSE [set EXCEPT ![op.addr] = NoEntry]

RECURSIVE ApplyOps(_, _)
ApplyOps(sets, ops) ==
    IF ops = <<>> THEN sets
    ELSE ApplyOps([sets EXCEPT ![Head(ops).g] = ApplyOp(@, Head(ops))], Tail(ops))

\* the kernel counts an entry's timeout down and drops the entry at its end
Aged(set) == [a \in DOMAIN set |->
                 IF set[a] = 0 THEN NoEntry
                 ELSE IF set[a] > 0 THEN set[a] - 1
                 ELSE set[a]]

----------------------------------------------------------------------------
(* App: the answer handlers, magitrickle.go *)

\* width of the uint32 the TTLs are kept in, scaled down
TtlBits == 3

TtlMod == 2 ^ TtlBits

\* TTLs advertised in answers: a small one and the largest one
WireTTLs == {1, TtlMod - 1}

AdditionalTTLs == {2}

Rule(on, match) == [enabled |-> on, match |-> match]

\* the rule lists of the two groups: the first holds one rule, the second two
RuleConfigs ==
    {<<  <<Rule(e1, {"svc.corp"})>>,
         <<Rule(e2, {"a.cdn"}), Rule(e3, {"a.cdn", "svc.corp"})>>  >> :
        e1 \in BOOLEAN, e2 \in BOOLEAN, e3 \in BOOLEAN}

\* the rule list of a single group
SyncRuleConfigs ==
    {<<  <<Rule(e1, {"a.cdn"}), Rule(e2, {"a.cdn", "svc.corp"})>>  >> :
        e1 \in BOOLEAN, e2 \in BOOLEAN}

\* a rule that is matched without the test of domain.IsEnabled()
RuleHitsDisabled(rule, names) == rule.match \cap names # {}

\* domain.IsEnabled() and domain.IsMatch(name) for some name of names
RuleHits(rule, names) == rule.enabled /\ rule.match \cap names # {}

\* uint32(x) of a float64 number of seconds: implementation-dependent below zero
ToUint32(x) ==
    IF x >= 0 THEN x % TtlMod
    ELSE IF conv = "wrap" THEN x % TtlMod
    ELSE 0

\* ttlDuration := Hdr.Ttl + AdditionalTTL, both uint32
TtlDuration(t) == (t + additionalTTL) % TtlMod

\* the loop over a.groups of processARecord: one AddIP for a group at its first
\* enabled rule matching a name of names, then break Rule
RECURSIVE ARecordOps(_, _, _, _)
ARecordOps(g, names, addr, ttl) ==
    IF g > Len(rules) THEN <<>>
    ELSE (IF \E i \in 1..Len(rules[g]) : RuleHits(rules[g][i], names)
             THEN <<[op |-> "AddIP", g |-> g, addr |-> addr, ttl |-> ttl]>>
             ELSE <<>>)
         \o ARecordOps(g + 1, names, addr, ttl)

\* processARecord and processAAAARecord: the same body for the two record types
processAnswer(kind, name, addr, t) ==
    LET ttlDuration == TtlDuration(t)
        recs == AddARecord(aRecords, name, addr, ttlDuration)
        names == GetAliases(cnameRecords, name)
        ops == ARecordOps(1, names, addr, ttlDuration)
    IN /\ HasRoom(aRecords, name, addr)
       /\ aRecords' = recs
       /\ cnameRecords' = PurgeCNames(cnameRecords)
       /\ ipset' = ApplyOps(ipset, ops)
       /\ lastOps' = ops
       /\ lastAct' = [kind |-> kind, name |-> name, addr |-> addr, t |-> t]
       /\ UNCHANGED <<now, queryVars, rules, additionalTTL, conv, fwVars, restVars>>

processARecord(name, addr, t) == addr = "ip4" /\ processAnswer("A", name, addr, t)

processAAAARecord(name, addr, t) == addr = "ip6" /\ processAnswer("AAAA", name, addr, t)

\* the AddIP calls of processCNameRecord for one matching rule: one for each A record
CNameRuleOps(g, order) ==
    [k \in 1..Len(order) |->
        [op |-> "AddIP", g |-> g, addr |-> order[k].addr, ttl |-> ToUint32(now - order[k].deadline)]]

\* the loop over group.Rules of processCNameRecord: continue Rule after a match
RECURSIVE CNameGroupOps(_, _, _, _)
CNameGroupOps(g, i, names, order) ==
    IF i > Len(rules[g]) THEN <<>>
    ELSE (IF RuleHits(rules[g][i], names) THEN CNameRuleOps(g, order) ELSE <<>>)
         \o CNameGroupOps(g, i + 1, names, order)

RECURSIVE CNameOps(_, _, _)
CNameOps(g, names, order) ==
    IF g > Len(rules) THEN <<>>
    ELSE CNameGroupOps(g, 1, names, order) \o CNameOps(g + 1, names, order)

processCNameRecord(name, target, t) ==
    LET ttlDuration == TtlDuration(t)
        cnames == AddCNameRecord(cnameRecords, name, target, ttlDuration)
        found == {[addr |-> a, deadline |-> aRecords[name][a]] : a \in GetARecords(aRecords, name)}
        names == GetAliases(cnames, name)
    IN /\ HasRoom(cnameRecords, name, target)
       /\ cnameRecords' = PurgeCNames(cnames)
       /\ aRecords' = [aRecords EXCEPT ![name] = DropDead(@)]
       /\ \E order \in Orders(found) :
             /\ lastOps' = CNameOps(1, names, order)
             /\ ipset' = ApplyOps(ipset, CNameOps(1, names, order))
       /\ lastAct' = [kind |-> "CNAME", name |-> name, target |-> target, t |-> t]
       /\ UNCHANGED <<now, queryVars, rules, additionalTTL, conv, fwVars, restVars>>

----------------------------------------------------------------------------
(* Group.Sync, group.go *)

\* the known domains some enabled rule of g matches
SyncDomains(g) ==
    {d \in ListKnownDomains(aRecords, cnameRecords) :
        \E i \in 1..Len(rules[g]) : RuleHits(rules[g][i], {d})}

\* ttl := uint32(now.Sub(address.Deadline).Seconds())
SyncTTL(deadline) == ToUint32(now - deadline)

\* the keys of the addresses map
SyncAddrs(g) == {a \in Addrs : \E d \in SyncDomains(g) : a \in GetARecords(aRecords, d)}

SyncTTLs(g, a) == {SyncTTL(aRecords[d][a]) : d \in {x \in SyncDomains(g) : a \in GetARecords(aRecords, x)}}

\* addresses[addr]: the ttl that survives  !ok || ttl > oldTTL
SyncAddresses(g, a) == CHOOSE v \in SyncTTLs(g, a) : \A w \in SyncTTLs(g, a) : w <= v

\* the first loop over addresses: skip an entry without timeout or with a larger one
SyncSkips(cur, ttl) == cur # NoEntry /\ (cur = NoTimeout \/ ttl < cur)

SyncAdds(g) == {a \in SyncAddrs(g) : ~SyncSkips(ipset[g][a], SyncAddresses(g, a))}

\* the second loop: the current addresses that are not wanted
SyncDels(g) == {a \in Addrs : ipset[g][a] # NoEntry /\ a \notin SyncAddrs(g)}

SyncOps(g, addOrder, delOrder) ==
    [k \in 1..Len(addOrder) |->
        [op |-> "AddIP", g |-> g, addr |-> addOrder[k], ttl |-> SyncAddresses(g, addOrder[k])]]
    \o [k \in 1..Len(delOrder) |-> [op |-> "DelIP", g |-> g, addr |-> delOrder[k], ttl |-> 0]]

\* listOk: whether g.ListIP() succeeds
Sync(g, listOk) ==
    /\ aRecords' = [d \in Names |-> IF d \in SyncDomains(g) THEN DropDead(aRecords[d]) ELSE aRecords[d]]
    /\ IF listOk
          THEN \E addOrder \in Orders(SyncAdds(g)), delOrder \in Orders(SyncDels(g)) :
                  /\ lastOps' = SyncOps(g, addOrder, delOrder)
                  /\ ipset' = ApplyOps(ipset, SyncOps(g, addOrder, delOrder))
          ELSE /\ lastOps' = <<>>
               /\ UNCHANGED ipset
    /\ lastAct' = [kind |-> "Sync", g |-> g, ok |-> listOk, before |-> ipset[g],
                   run |-> IF lastAct.kind = "Sync" /\ lastAct.g = g /\ lastAct.ok THEN 2 ELSE 1]
    /\ UNCHANGED <<now, cnameRecords, queryVars, rules, additionalTTL, conv, fwVars, restVars>>

----------------------------------------------------------------------------
(* The environment of the app *)

\* a second passes: the store's clock and the kernel's timeouts move together
AppTick ==
    /\ now < MaxNow
    /\ now' = now + 1
    /\ ipset' = [g \in DOMAIN ipset |-> Aged(ipset[g])]
    /\ lastAct' = [kind |-> "Tick"]
    /\ lastOps' = <<>>
    /\ UNCHANGED <<recVars, queryVars, rules, additionalTTL, conv, fwVars, restVars>>

\* an address without timeout that somebody else put into a group's set before
\* the app handled its first answer
OperatorAddIP(g, addr) ==
    /\ lastAct.kind \in {"none", "Operator"}
    /\ ipset[g][addr] = NoEntry
    /\ ipset' = [ipset EXCEPT ![g][addr] = NoTimeout]
    /\ lastAct' = [kind |-> "Operator"]
    /\ lastOps' = <<>>
    /\ UNCHANGED <<now, recVars, queryVars, rules, additionalTTL, conv, fwVars, restVars>>

InitApp ==
    /\ now = 0
    /\ aRecords = NewARecords
    /\ cnameRecords = NewCNameRecords
    /\ InitQuery
    /\ additionalTTL \in AdditionalTTLs
    /\ conv \in {"wrap", "saturate"}
    /\ ipset = [g \in DOMAIN rules |-> NewIPSet]
    /\ lastAct = [kind |-> "none"]
    /\ lastOps = <<>>
    /\ FwIdle
    /\ RunIdle
    /\ HookIdle
    /\ LockIdle

\* the answers of the DNS proxy are handled by two groups
InitAnswer ==
    /\ rules \in RuleConfigs
    /\ InitApp

NextAnswer ==
    \/ \E n \in Names, a \in Addrs, t \in WireTTLs : processARecord(n, a, t)
    \/ \E n \in Names, a \in Addrs, t \in WireTTLs : processAAAARecord(n, a, t)
    \/ \E n \in Names, c \in Names, t \in WireTTLs : processCNameRecord(n, c, t)
    \/ AppTick

SpecAnswer == InitAnswer /\ [][NextAnswer]_vars

\* one group is reconciled while answers come in
InitSync ==
    /\ rules \in SyncRuleConfigs
    /\ InitApp

NextSync ==
    \/ \E n \in Names, a \in Addrs, t \in WireTTLs : processARecord(n, a, t)
    \/ \E n \in Names, a \in Addrs, t \in WireTTLs : processAAAARecord(n, a, t)
    \/ \E n \in Names, c \in Names, t \in WireTTLs : processCNameRecord(n, c, t)
    \/ \E g \in DOMAIN rules, ok \in BOOLEAN : Sync(g, ok)
    \/ \E g \in DOMAIN rules, a \in Addrs : OperatorAddIP(g, a)
    \/ AppTick

SpecSync == InitSync /\ [][NextSync]_vars

----------------------------------------------------------------------------
(* Firewall rules of a group, group.go, and the netfilter.d message of the  *)
(* control socket, magitrickle.go *)

Families == {"v4", "v6"}

Tables == {"filter", "mangle", "nat"}

\* <type> of a netfilter.d message
IptTypes == {"", "iptables", "ip6tables"}

FwRule(fam, table, owner, form) == [fam |-> fam, table |-> table, owner |-> owner, form |-> form]

\* filter _NDM_SL_FORWARD -o <iface> -m state --state NEW -j _NDM_SL_PROTECT
StateNewRule(fam, g) == FwRule(fam, "filter", g, "state-new")

\* filter _NDM_SL_FORWARD -o <iface> -j _NDM_SL_PROTECT
PlainRule(fam, g) == FwRule(fam, "filter", g, "plain")

\* the mangle rules of the group's set-to-link binder (section 4.3)
LinkRules(g) == {FwRule(fam, "mangle", g, "mark") : fam \in Families}

\* the nat rules of the DNS port-remap (section 4.1); owner 0 is the app
RemapRules == {FwRule(fam, "nat", 0, "remap") : fam \in Families}

\* the families a message type names
Affected(iptType) ==
    IF iptType = "" THEN Families
    ELSE IF iptType = "iptables" THEN {"v4"}
    ELSE {"v6"}

\* the rules Enable has appended when it returns, by the step that failed
EnableAppends(g, outcome) ==
    (IF fixProtect[g] /\ outcome # "fail4" THEN {StateNewRule("v4", g)} ELSE {})
    \cup (IF fixProtect[g] /\ outcome \notin {"fail4", "fail6"} THEN {PlainRule("v6", g)} ELSE {})
    \cup (IF outcome = "ok" THEN LinkRules(g) ELSE {})

\* Disable: nothing when the group is not enabled, else the deletes
DisableRules(g, isEnabled, rs) ==
    IF ~isEnabled THEN rs
    ELSE rs \ ((IF fixProtect[g] THEN {StateNewRule("v4", g), PlainRule("v6", g)} ELSE {})
               \cup LinkRules(g))

EnableOutcomes(g) == IF fixProtect[g] THEN {"ok", "fail4", "fail6", "failLink"} ELSE {"ok", "failLink"}

\* Enable, with the step that returns an error; the deferred function calls Disable
\* when g.enabled is still false
Enable(g, outcome) ==
    /\ ~crashed
    /\ ~enabled[g]
    /\ outcome \in EnableOutcomes(g)
    /\ LET isEnabled == outcome = "ok"
           rs == fw \cup EnableAppends(g, outcome)
       IN /\ fw' = IF ~isEnabled THEN DisableRules(g, isEnabled, rs) ELSE rs
          /\ enabled' = [enabled EXCEPT ![g] = isEnabled]
    /\ lastFw' = [kind |-> "Enable", g |-> g, outcome |-> outcome]
    /\ UNCHANGED <<now, recVars, queryVars, appVars, restVars, fixProtect, dnsOverrider, crashed, flushed>>

Disable(g) ==
    /\ ~crashed
    /\ enabled[g]
    /\ fw' = DisableRules(g, enabled[g], fw)
    /\ enabled' = [enabled EXCEPT ![g] = FALSE]
    /\ lastFw' = [kind |-> "Disable", g |-> g]
    /\ UNCHANGED <<now, recVars, queryVars, appVars, restVars, fixProtect, dnsOverrider, crashed, flushed>>

\* Destroy: Disable, then the set is destroyed
Destroy(g) ==
    /\ ~crashed
    /\ fw' = DisableRules(g, enabled[g], fw)
    /\ enabled' = [enabled EXCEPT ![g] = FALSE]
    /\ lastFw' = [kind |-> "Destroy", g |-> g]
    /\ UNCHANGED <<now, recVars, queryVars, appVars, restVars, fixProtect, dnsOverrider, crashed, flushed>>

\* the two AppendUnique calls of Group.NetfilterDHook
HookFixProtect(g, iptType, table) ==
    IF enabled[g] /\ fixProtect[g] /\ table = "filter"
        THEN {StateNewRule(fam, g) : fam \in Affected(iptType)}
        ELSE {}

\* g.ipsetToLink.NetfilterDHook: the binder's rules of the family and table again
HookLink(g, iptType, table) ==
    IF enabled[g] THEN {r \in LinkRules(g) : r.fam \in Affected(iptType) /\ r.table = table} ELSE {}

GroupNetfilterDHook(g, iptType, table) == HookFixProtect(g, iptType, table) \cup HookLink(g, iptType, table)

\* a.dnsOverrider.NetfilterDHook: the remap rules of the family and table again
PortRemapHook(iptType, table) == {r \in RemapRules : r.fam \in Affected(iptType) /\ r.table = table}

\* what calling a method of the nil *PortRemap does
NilHookOutcomes == {"panic", "returns"}

\* the handler of a netfilter.d:<type>:<table> message
HandleNetfilterD(iptType, table) ==
    /\ ~crashed
    /\ \E nilOutcome \in NilHookOutcomes :
          IF dnsOverrider = "nil" /\ nilOutcome = "panic"
             THEN /\ crashed' = TRUE
                  /\ UNCHANGED fw
             ELSE /\ fw' = fw \cup (IF dnsOverrider = "nil" THEN {} ELSE PortRemapHook(iptType, table))
                             \cup UNION {GroupNetfilterDHook(g, iptType, table) : g \in DOMAIN enabled}
                  /\ UNCHANGED crashed
    /\ lastFw' = [kind |-> "NetfilterD", iptType |-> iptType, table |-> table]
    /\ UNCHANGED <<now, recVars, queryVars, appVars, restVars, fixProtect, enabled, dnsOverrider, flushed>>

\* another actor flushes one table of one family
ExternalFlush(fam, table) ==
    /\ fw' = {r \in fw : ~(r.fam = fam /\ r.table = table)}
    /\ flushed' = TRUE
    /\ lastFw' = [kind |-> "Flush", fam |-> fam, table |-> table]
    /\ UNCHANGED <<now, recVars, queryVars, appVars, restVars, fixProtect, enabled, dnsOverrider, crashed>>

InitFirewall ==
    /\ now = 0
    /\ aRecords = NewARecords
    /\ cnameRecords = NewCNameRecords
    /\ InitQuery
    /\ AppIdle
    /\ fixProtect \in [1..2 -> BOOLEAN]
    /\ enabled = [g \in 1..2 |-> FALSE]
    /\ dnsOverrider \in {"nil", "set"}
    /\ fw = IF dnsOverrider = "nil" THEN {} ELSE RemapRules
    /\ crashed = FALSE
    /\ flushed = FALSE
    /\ lastFw = [kind |-> "none"]
    /\ RunIdle
    /\ HookIdle
    /\ LockIdle

NextFirewall ==
    \/ \E g \in 1..2, outcome \in {"ok", "fail4", "fail6", "failLink"} : Enable(g, outcome)
    \/ \E g \in 1..2 : Disable(g)
    \/ \E g \in 1..2 : Destroy(g)
    \/ \E iptType \in IptTypes, table \in Tables : HandleNetfilterD(iptType, table)
    \/ \E fam \in Families, table \in Tables : ExternalFlush(fam, table)

SpecFirewall == InitFirewall /\ [][NextFirewall]_vars

----------------------------------------------------------------------------
(* App: Start, start and AddGroup, magitrickle.go *)

\* calls of Start the model follows
MaxRuns == 1

\* groups of the imported configuration
MaxConfigGroups == 2

\* groups App.groups holds at most
MaxGroups == 2

\* calls of Start on one app when restarts are looked at
MaxStarts == 2

\* models.Group: its id, the ids of its rules, fix_protect
GroupModel(id, ruleIds, fp) == [id |-> id, rules |-> ruleIds, fixProtect |-> fp]

GroupModels == {GroupModel(1, <<1, 2>>, TRUE), GroupModel(2, <<1, 2>>, FALSE), GroupModel(2, <<1, 1>>, FALSE)}

GroupConfigs == UNION {[1..n -> GroupModels] : n \in 0..MaxConfigGroups}

\* everything of the model outside the app's run
outerVars == <<now, recVars, queryVars, appVars, hookVars, lockVars, flushed, lastFw>>

cfgVars == <<config, unprocessedGroups>>

grpVars == <<groups, enabled, fixProtect, ipsets>>

sockVars == <<socket, socketFile, linkSub>>

NoCall == [fn |-> "none"]

\* the first loop of AddGroup: groupModel.ID == group.ID for a group of a.groups
GroupIDConflict(gs, groupModel) == \E i \in 1..Len(gs) : gs[i].id = groupModel.id

\* the second loop of AddGroup: a rule id seen before
RuleIDConflict(groupModel) ==
    \E i, j \in 1..Len(groupModel.rules) : i < j /\ groupModel.rules[i] = groupModel.rules[j]

\* what AddGroup returns; outcome says which call of it fails, if any
AddGroupErr(gs, groupModel, outcome) ==
    IF GroupIDConflict(gs, groupModel) THEN "ErrGroupIDConflict"
    ELSE IF RuleIDConflict(groupModel) THEN "ErrRuleIDConflict"
    ELSE IF outcome = "failNewGroup" THEN "failed to create group"
    ELSE IF isRunning /\ outcome = "failSync" THEN "failed to sync"
    ELSE "nil"

\* AddGroup without its two conflict loops
AddGroupAppendsUnchecked(gs, groupModel, outcome) == outcome # "failNewGroup"

\* AddGroup reaches a.groups = append(a.groups, grp)
AddGroupAppends(gs, groupModel, outcome) ==
    /\ ~GroupIDConflict(gs, groupModel)
    /\ ~RuleIDConflict(groupModel)
    /\ outcome # "failNewGroup"

AddGroupOutcomes == {"ok", "failNewGroup", "failSync"}

\* the body of AddGroup: NewGroup has the adapter create the group's set and binder
AddGroupBody(groupModel, outcome) ==
    /\ IF AddGroupAppends(groups, groupModel, outcome)
          THEN /\ groups' = Append(groups, groupModel)
               /\ enabled' = Append(enabled, FALSE)
               /\ fixProtect' = Append(fixProtect, groupModel.fixProtect)
               /\ ipsets' = ipsets \cup {groupModel.id}
          ELSE UNCHANGED grpVars
    /\ lastCall' = [fn |-> "AddGroup", group |-> groupModel,
                    err |-> AddGroupErr(groups, groupModel, outcome),
                    groups |-> groups, ipsets |-> ipsets]

\* AddGroup called while the app is in its event loop
AddGroup(groupModel, outcome) ==
    /\ spc = "loop"
    /\ Len(groups) < MaxGroups
    /\ AddGroupBody(groupModel, outcome)
    /\ UNCHANGED <<outerVars, cfgVars, sockVars, fw, dnsOverrider, crashed, isRunning, spc, idx,
                   deferred, panicking, startErr, result, run, tdLog, ctxDone, newCtxDone,
                   listeners, acceptor>>

\* deferred calls that run in the order they were deferred in
DeferLast(f, stack) == Append(stack, f)

\* a defer statement that was left out
DeferNothing(f, stack) == stack

\* defer f(): the deferred calls run last in, first out
Defer(f, stack) == <<f>> \o stack

\* return err from start
Return(err, cause) ==
    /\ startErr' = err
    /\ spc' = "unwind"
    /\ run' = [run EXCEPT !.cause = cause, !.cancelled = ctxDone]

\* the body of Start up to err = a.start(ctx): isRunning is false, so it is set
\* and start is entered
StartBody ==
    /\ spc = "idle"
    /\ ~crashed
    /\ ~isRunning
    /\ isRunning' = TRUE
    /\ spc' = "init"
    /\ run' = [n |-> run.n + 1, looped |-> FALSE, cause |-> "none", cancelled |-> FALSE]
    /\ result' = "none"
    /\ startErr' = "nil"
    /\ tdLog' = <<>>
    /\ ctxDone' = FALSE
    /\ lastCall' = NoCall
    /\ UNCHANGED <<outerVars, cfgVars, grpVars, sockVars, fw, dnsOverrider, crashed, idx,
                   deferred, panicking, newCtxDone, listeners, acceptor>>

\* Start is called on an app that has not run MaxRuns times
Start == run.n < MaxRuns /\ StartBody

\* Start is called again on the same app after MaxRuns runs of it
Restart == run.n >= MaxRuns /\ run.n < MaxStarts /\ StartBody

\* the rules in chains named with the chain prefix
PrefixOwned(rs) == {r \in rs : r.table \in {"mangle", "nat"}}

\* start up to the two listener goroutines: the proxy, the store, the adapter,
\* CleanIPTables, the derived context
startInit(outcome) ==
    /\ spc = "init"
    /\ IF outcome = "ok"
          THEN /\ fw' = fw \ PrefixOwned(fw)
               /\ newCtxDone' = ctxDone
               /\ deferred' = Defer("cancel", <<>>)
               /\ listeners' = [listeners EXCEPT ![run.n] = [l \in DOMAIN @ |-> "serving"]]
               /\ spc' = "links"
               /\ UNCHANGED <<startErr, run>>
          ELSE /\ Return(IF outcome = "failNew" THEN "netfilter helper init fail"
                         ELSE "failed to clear iptables", "setup")
               /\ deferred' = <<>>
               /\ UNCHANGED <<fw, newCtxDone, listeners>>
    /\ lastCall' = NoCall
    /\ UNCHANGED <<outerVars, cfgVars, grpVars, sockVars, dnsOverrider, crashed, isRunning, idx,
                   panicking, result, tdLog, ctxDone, acceptor>>

\* the loop over a.config.Link
startLinks(ok) ==
    /\ spc = "links"
    /\ IF ok THEN spc' = "remap" /\ UNCHANGED <<startErr, run>>
       ELSE Return("failed to find link", "setup")
    /\ lastCall' = NoCall
    /\ UNCHANGED <<outerVars, cfgVars, grpVars, sockVars, fw, dnsOverrider, crashed, isRunning,
                   idx, deferred, panicking, result, tdLog, ctxDone, newCtxDone, listeners, acceptor>>

\* if !DisableRemap53: the port-remap is made, enabled, and its Disable deferred
startRemap(ok) ==
    /\ spc = "remap"
    /\ IF config.disableRemap53
          THEN /\ ok
               /\ spc' = "addGroups"
               /\ UNCHANGED <<fw, dnsOverrider, deferred, startErr, run>>
          ELSE /\ dnsOverrider' = "set"
               /\ IF ok
                     THEN /\ fw' = fw \cup RemapRules
                          /\ deferred' = Defer("remapDisable", deferred)
                          /\ spc' = "addGroups"
                          /\ UNCHANGED <<startErr, run>>
                     ELSE /\ Return("failed to override DNS", "setup")
                          /\ UNCHANGED <<fw, deferred>>
    /\ idx' = 1
    /\ lastCall' = NoCall
    /\ UNCHANGED <<outerVars, cfgVars, grpVars, sockVars, crashed, isRunning,
                   panicking, result, tdLog, ctxDone, newCtxDone, listeners, acceptor>>

\* one round of the loop over a.unprocessedGroups
startAddGroup(outcome) ==
    /\ spc = "addGroups"
    /\ idx <= Len(unprocessedGroups)
    /\ AddGroupBody(unprocessedGroups[idx], outcome)
    /\ IF AddGroupErr(groups, unprocessedGroups[idx], outcome) = "nil"
          THEN idx' = idx + 1 /\ UNCHANGED <<spc, startErr, run>>
          ELSE Return(AddGroupErr(groups, unprocessedGroups[idx], outcome), "setup") /\ UNCHANGED idx
    /\ UNCHANGED <<outerVars, cfgVars, sockVars, fw, dnsOverrider, crashed, isRunning,
                   deferred, panicking, result, tdLog, ctxDone, newCtxDone, listeners, acceptor>>

\* the loop over a.unprocessedGroups is over
startGroupsAdded ==
    /\ spc = "addGroups"
    /\ idx > Len(unprocessedGroups)
    /\ spc' = "enableGroups"
    /\ idx' = 1
    /\ lastCall' = NoCall
    /\ UNCHANGED <<outerVars, cfgVars, grpVars, sockVars, fw, dnsOverrider, crashed, isRunning,
                   deferred, panicking, startErr, result, run, tdLog, ctxDone, newCtxDone,
                   listeners, acceptor>>

\* one round of the loop over a.groups: group.Enable()
startEnableGroup(outcome) ==
    /\ spc = "enableGroups"
    /\ idx <= Len(groups)
    /\ outcome \in EnableOutcomes(idx)
    /\ IF enabled[idx]
          THEN outcome = "ok" /\ UNCHANGED <<fw, enabled>>
          ELSE /\ fw' = IF outcome = "ok" THEN fw \cup EnableAppends(idx, outcome)
                        ELSE DisableRules(idx, FALSE, fw \cup EnableAppends(idx, outcome))
               /\ enabled' = [enabled EXCEPT ![idx] = (outcome = "ok")]
    /\ IF outcome = "ok"
          THEN idx' = idx + 1 /\ UNCHANGED <<spc, startErr, run>>
          ELSE Return("failed to enable group", "setup") /\ UNCHANGED idx
    /\ lastCall' = NoCall
    /\ UNCHANGED <<outerVars, cfgVars, groups, fixProtect, ipsets, sockVars, dnsOverrider, crashed,
                   isRunning, deferred, panicking, result, tdLog, ctxDone, newCtxDone,
                   listeners, acceptor>>

\* the loop over a.groups is over: the Destroy of every group is deferred
startGroupsEnabled ==
    /\ spc = "enableGroups"
    /\ idx > Len(groups)
    /\ deferred' = Defer("destroyGroups", deferred)
    /\ spc' = "socket"
    /\ lastCall' = NoCall
    /\ UNCHANGED <<outerVars, cfgVars, grpVars, sockVars, fw, dnsOverrider, crashed, isRunning,
                   idx, panicking, startErr, result, run, tdLog, ctxDone, newCtxDone,
                   listeners, acceptor>>

\* os.Remove of the socket path, net.Listen, the deferred Close and Remove, and
\* the acceptor goroutine
startSocket(outcome) ==
    /\ spc = "socket"
    /\ IF outcome = "ok"
          THEN /\ socket' = "open"
               /\ socketFile' = TRUE
               /\ deferred' = Defer("socketClose", deferred)
               /\ acceptor' = [acceptor EXCEPT ![run.n] = "check"]
               /\ spc' = "subscribe"
               /\ UNCHANGED <<startErr, run>>
          ELSE /\ Return(IF outcome = "failRemove" THEN "failed to remove existed UNIX socket"
                         ELSE "error while serve UNIX socket", "setup")
               /\ socketFile' = IF outcome = "failListen" THEN FALSE ELSE socketFile
               /\ UNCHANGED <<socket, deferred, acceptor>>
    /\ lastCall' = NoCall
    /\ UNCHANGED <<outerVars, cfgVars, grpVars, linkSub, fw, dnsOverrider, crashed, isRunning,
                   idx, panicking, result, tdLog, ctxDone, newCtxDone, listeners>>

\* netlink.LinkSubscribe and the deferred close(linkUpdateDone); the loop is next
startSubscribe(ok) ==
    /\ spc = "subscribe"
    /\ IF ok
          THEN /\ linkSub' = "open"
               /\ deferred' = Defer("closeLinkDone", deferred)
               /\ spc' = "loop"
               /\ run' = [run EXCEPT !.looped = TRUE]
               /\ UNCHANGED startErr
          ELSE /\ Return("failed to subscribe to link updates", "setup")
               /\ UNCHANGED <<linkSub, deferred>>
    /\ lastCall' = NoCall
    /\ UNCHANGED <<outerVars, cfgVars, grpVars, socket, socketFile, fw, dnsOverrider, crashed,
                   isRunning, idx, panicking, result, tdLog, ctxDone, newCtxDone,
                   listeners, acceptor>>

\* case event := <-linkUpdateChannel: a.handleLink(event)
loopLinkEvent ==
    /\ spc = "loop"
    /\ linkSub = "open"
    /\ lastCall' = NoCall
    /\ UNCHANGED <<outerVars, cfgVars, grpVars, sockVars, fw, dnsOverrider, crashed, isRunning,
                   spc, idx, deferred, panicking, startErr, result, run, tdLog, ctxDone,
                   newCtxDone, listeners, acceptor>>

\* case err := <-errChan: return err; the listener that was sending goes on and ends
loopErrChan(l) ==
    /\ spc = "loop"
    /\ listeners[run.n][l] = "sending"
    /\ listeners' = [listeners EXCEPT ![run.n][l] = "exited"]
    /\ Return("failed to serve DNS proxy", "errChan")
    /\ lastCall' = NoCall
    /\ UNCHANGED <<outerVars, cfgVars, grpVars, sockVars, fw, dnsOverrider, crashed, isRunning,
                   idx, deferred, panicking, result, tdLog, ctxDone, newCtxDone, acceptor>>

\* case <-ctx.Done(): return nil
loopCtxDone ==
    /\ spc = "loop"
    /\ ctxDone
    /\ Return("nil", "ctx")
    /\ lastCall' = NoCall
    /\ UNCHANGED <<outerVars, cfgVars, grpVars, sockVars, fw, dnsOverrider, crashed, isRunning,
                   idx, deferred, panicking, result, tdLog, ctxDone, newCtxDone,
                   listeners, acceptor>>

\* a panic inside start: the deferred calls run while the stack unwinds
startPanics ==
    /\ spc \in {"init", "links", "remap", "addGroups", "enableGroups", "socket", "subscribe", "loop"}
    /\ panicking' = TRUE
    /\ spc' = "unwind"
    /\ run' = [run EXCEPT !.cause = "panic", !.cancelled = ctxDone]
    /\ lastCall' = NoCall
    /\ UNCHANGED <<outerVars, cfgVars, grpVars, sockVars, fw, dnsOverrider, crashed, isRunning,
                   idx, deferred, startErr, result, tdLog, ctxDone, newCtxDone,
                   listeners, acceptor>>

\* a Destroy that stops after Disable()
DestroyedSetsKept(gs, sets) == sets

\* group.Destroy() of every group: ipset.Destroy()
DestroyedSets(gs, sets) == sets \ {gs[i].id : i \in 1..Len(gs)}

\* group.Destroy() of every group: Disable()
DestroyedRules(rs) == {r \in rs : \A g \in 1..Len(groups) : r \in DisableRules(g, enabled[g], rs)}

\* the deferred call in front runs
runDeferred ==
    /\ spc = "unwind"
    /\ deferred # <<>>
    /\ LET f == Head(deferred)
       IN /\ deferred' = Tail(deferred)
          /\ tdLog' = Append(tdLog, f)
          /\ linkSub' = IF f = "closeLinkDone" THEN "closed" ELSE linkSub
          /\ socket' = IF f = "socketClose" THEN "closed" ELSE socket
          /\ socketFile' = IF f = "socketClose" THEN FALSE ELSE socketFile
          /\ fw' = IF f = "destroyGroups" THEN DestroyedRules(fw)
                   ELSE IF f = "remapDisable" THEN fw \ RemapRules
                   ELSE fw
          /\ enabled' = IF f = "destroyGroups" THEN [g \in 1..Len(groups) |-> FALSE] ELSE enabled
          /\ ipsets' = IF f = "destroyGroups" THEN DestroyedSets(groups, ipsets) ELSE ipsets
          /\ newCtxDone' = IF f = "cancel" THEN TRUE ELSE newCtxDone
    /\ lastCall' = NoCall
    /\ UNCHANGED <<outerVars, cfgVars, groups, fixProtect, dnsOverrider, crashed, isRunning,
                   spc, idx, panicking, startErr, result, run, ctxDone, listeners, acceptor>>

\* Start without the deferred recover()
NoRecover(p) == FALSE

\* recover() in Start's deferred function returns the value of a panic of start
Recovers(p) == p

\* start has returned or panicked: Start's two deferred functions, then its return
startReturns ==
    /\ spc = "unwind"
    /\ deferred = <<>>
    /\ IF panicking /\ ~Recovers(panicking)
          THEN /\ crashed' = TRUE
               /\ spc' = "dead"
               /\ UNCHANGED result
          ELSE /\ result' = IF panicking THEN "recovered error" ELSE startErr
               /\ spc' = "idle"
               /\ UNCHANGED crashed
    /\ panicking' = FALSE
    /\ isRunning' = FALSE
    /\ lastCall' = NoCall
    /\ UNCHANGED <<outerVars, cfgVars, grpVars, sockVars, fw, dnsOverrider, idx, deferred,
                   startErr, run, tdLog, ctxDone, newCtxDone, listeners, acceptor>>

\* the caller of Start cancels the context
CancelCtx ==
    /\ spc \notin {"idle", "dead"}
    /\ ~ctxDone
    /\ ctxDone' = TRUE
    /\ newCtxDone' = IF spc = "init" THEN newCtxDone ELSE TRUE
    /\ lastCall' = NoCall
    /\ UNCHANGED <<outerVars, cfgVars, grpVars, sockVars, fw, dnsOverrider, crashed, isRunning,
                   spc, idx, deferred, panicking, startErr, result, run, tdLog, listeners,
                   acceptor>>

\* the context of the goroutines of run r is cancelled
RunCtxDone(r) == r < run.n \/ newCtxDone

Listeners == {"udp", "tcp"}

\* ResolveUDPAddr, ListenUDP (ResolveTCPAddr, ListenTCP) returns an error: the
\* goroutine blocks in errChan <- err
listenerFails(r, l) ==
    /\ listeners[r][l] = "serving"
    /\ listeners' = [listeners EXCEPT ![r][l] = "sending"]
    /\ lastCall' = NoCall
    /\ UNCHANGED <<outerVars, cfgVars, grpVars, sockVars, fw, dnsOverrider, crashed, isRunning,
                   spc, idx, deferred, panicking, startErr, result, run, tdLog, ctxDone,
                   newCtxDone, acceptor>>

\* the listener returns nil once its context is cancelled
listenerStops(r, l) ==
    /\ listeners[r][l] = "serving"
    /\ RunCtxDone(r)
    /\ listeners' = [listeners EXCEPT ![r][l] = "exited"]
    /\ lastCall' = NoCall
    /\ UNCHANGED <<outerVars, cfgVars, grpVars, sockVars, fw, dnsOverrider, crashed, isRunning,
                   spc, idx, deferred, panicking, startErr, result, run, tdLog, ctxDone,
                   newCtxDone, acceptor>>

\* the acceptor at the top of its loop: if newCtx.Err() != nil { return }
acceptorCheck(r) ==
    /\ acceptor[r] = "check"
    /\ acceptor' = [acceptor EXCEPT ![r] = IF RunCtxDone(r) THEN "exited" ELSE "accept"]
    /\ lastCall' = NoCall
    /\ UNCHANGED <<outerVars, cfgVars, grpVars, sockVars, fw, dnsOverrider, crashed, isRunning,
                   spc, idx, deferred, panicking, startErr, result, run, tdLog, ctxDone,
                   newCtxDone, listeners>>

\* socket.Accept() returns a connection: its handler goroutine is started
acceptorConn(r) ==
    /\ acceptor[r] = "accept"
    /\ r = run.n
    /\ socket = "open"
    /\ acceptor' = [acceptor EXCEPT ![r] = "check"]
    /\ lastCall' = NoCall
    /\ UNCHANGED <<outerVars, cfgVars, grpVars, sockVars, fw, dnsOverrider, crashed, isRunning,
                   spc, idx, deferred, panicking, startErr, result, run, tdLog, ctxDone,
                   newCtxDone, listeners>>

\* socket.Accept() returns an error after the socket was closed: break
acceptorClosed(r) ==
    /\ acceptor[r] = "accept"
    /\ (r < run.n \/ socket = "closed")
    /\ acceptor' = [acceptor EXCEPT ![r] = "exited"]
    /\ lastCall' = NoCall
    /\ UNCHANGED <<outerVars, cfgVars, grpVars, sockVars, fw, dnsOverrider, crashed, isRunning,
                   spc, idx, deferred, panicking, startErr, result, run, tdLog, ctxDone,
                   newCtxDone, listeners>>

InitRun ==
    /\ now = 0
    /\ aRecords = NewARecords
    /\ cnameRecords = NewCNameRecords
    /\ InitQuery
    /\ AppIdle
    /\ HookIdle
    /\ LockIdle
    /\ FwIdle
    /\ config \in [disableRemap53 : BOOLEAN, disableFakePTR : {FALSE}]
    /\ unprocessedGroups \in GroupConfigs
    /\ groups = <<>>
    /\ isRunning = FALSE
    /\ spc = "idle"
    /\ idx = 0
    /\ deferred = <<>>
    /\ panicking = FALSE
    /\ startErr = "nil"
    /\ result = "none"
    /\ run = [n |-> 0, looped |-> FALSE, cause |-> "none", cancelled |-> FALSE]
    /\ tdLog = <<>>
    /\ ctxDone = FALSE
    /\ newCtxDone = FALSE
    /\ listeners = [r \in 1..MaxRuns |-> [l \in Listeners |-> "none"]]
    /\ acceptor = [r \in 1..MaxRuns |-> "none"]
    /\ socket = "none"
    /\ socketFile = FALSE
    /\ linkSub = "none"
    /\ ipsets = {}
    /\ lastCall = NoCall

NextRun ==
    \/ Start
    \/ \E outcome \in {"ok", "failNew", "failClean"} : startInit(outcome)
    \/ \E ok \in BOOLEAN : startLinks(ok)
    \/ \E ok \in BOOLEAN : startRemap(ok)
    \/ \E outcome \in AddGroupOutcomes : startAddGroup(outcome)
    \/ startGroupsAdded
    \/ \E outcome \in {"ok", "fail4", "fail6", "failLink"} : startEnableGroup(outcome)
    \/ startGroupsEnabled
    \/ \E outcome \in {"ok", "failRemove", "failListen"} : startSocket(outcome)
    \/ \E ok \in BOOLEAN : startSubscribe(ok)
    \/ loopLinkEvent
    \/ \E l \in Listeners : loopErrChan(l)
    \/ loopCtxDone
    \/ startPanics
    \/ runDeferred
    \/ startReturns
    \/ \E groupModel \in GroupModels, outcome \in AddGroupOutcomes : AddGroup(groupModel, outcome)
    \/ CancelCtx
    \/ \E r \in 1..MaxRuns, l \in Listeners : listenerFails(r, l)
    \/ \E r \in 1..MaxRuns, l \in Listeners : listenerStops(r, l)
    \/ \E r \in 1..MaxRuns : acceptorCheck(r)
    \/ \E r \in 1..MaxRuns : acceptorConn(r)
    \/ \E r \in 1..MaxRuns : acceptorClosed(r)

SpecRun == InitRun /\ [][NextRun]_vars

\* the scheduler runs a goroutine that can go on; select takes a case that stays ready
FairRun ==
    /\ WF_vars(loopCtxDone)
    /\ WF_vars(runDeferred)
    /\ WF_vars(startReturns)
    /\ \A r \in 1..MaxRuns : WF_vars(acceptorCheck(r)) /\ WF_vars(acceptorClosed(r))

SpecRunFair == InitRun /\ [][NextRun]_vars /\ FairRun

\* an app that is started, stopped and started again, with its listeners and its
\* acceptor ending on cancellation
InitRestart ==
    /\ now = 0
    /\ aRecords = NewARecords
    /\ cnameRecords = NewCNameRecords
    /\ InitQuery
    /\ AppIdle
    /\ HookIdle
    /\ LockIdle
    /\ FwIdle
    /\ config \in [disableRemap53 : BOOLEAN, disableFakePTR : {FALSE}]
    /\ unprocessedGroups \in GroupConfigs
    /\ groups = <<>>
    /\ isRunning = FALSE
    /\ spc = "idle"
    /\ idx = 0
    /\ deferred = <<>>
    /\ panicking = FALSE
    /\ startErr = "nil"
    /\ result = "none"
    /\ run = [n |-> 0, looped |-> FALSE, cause |-> "none", cancelled |-> FALSE]
    /\ tdLog = <<>>
    /\ ctxDone = FALSE
    /\ newCtxDone = FALSE
    /\ listeners = [r \in 1..MaxStarts |-> [l \in Listeners |-> "none"]]
    /\ acceptor = [r \in 1..MaxStarts |-> "none"]
    /\ socket = "none"
    /\ socketFile = FALSE
    /\ linkSub = "none"
    /\ ipsets = {}
    /\ lastCall = NoCall

NextRestart ==
    \/ Start
    \/ Restart
    \/ \E outcome \in {"ok", "failNew", "failClean"} : startInit(outcome)
    \/ \E ok \in BOOLEAN : startLinks(ok)
    \/ \E ok \in BOOLEAN : startRemap(ok)
    \/ \E outcome \in AddGroupOutcomes : startAddGroup(outcome)
    \/ startGroupsAdded
    \/ \E outcome \in {"ok", "fail4", "fail6", "failLink"} : startEnableGroup(outcome)
    \/ startGroupsEnabled
    \/ \E outcome \in {"ok", "failRemove", "failListen"} : startSocket(outcome)
    \/ \E ok \in BOOLEAN : startSubscribe(ok)
    \/ loopCtxDone
    \/ runDeferred
    \/ startReturns
    \/ CancelCtx
    \/ \E r \in 1..MaxStarts, l \in Listeners : listenerStops(r, l)
    \/ \E r \in 1..MaxStarts : acceptorCheck(r)
    \/ \E r \in 1..MaxStarts : acceptorClosed(r)

SpecRestart == InitRestart /\ [][NextRestart]_vars

----------------------------------------------------------------------------
(* App: the request hook of the DNS proxy, magitrickle.go *)

\* largest message id of a request
MaxId == 2

\* questions a request holds at most
MaxQuestions == 2

Qtypes == {"PTR", "A", "AAAA"}

\* dns.Question
Question(qtype) == [name |-> IF qtype = "PTR" THEN "4.3.2.1.in-addr.arpa." ELSE "svc.corp.", qtype |-> qtype]

\* dns.Msg of a request: Id and Question
Requests ==
    {[id |-> i, question |-> q] :
        i \in 0..MaxId,
        q \in UNION {[1..n -> {Question(t) : t \in Qtypes}] : n \in 0..MaxQuestions}}

\* a nil *dns.Msg; a message m that is not nil is <<m>>
NilMsg == <<>>

\* a hook that answers every single PTR question, whatever DisableFakePTR says
RequestHookAlways(cfg, msg) ==
    IF Len(msg.question) = 1 /\ msg.question[1].qtype = "PTR"
       THEN [req |-> NilMsg,
             resp |-> <<[id |-> msg.id, response |-> TRUE, recursionAvailable |-> TRUE,
                        rcode |-> "NXDOMAIN", question |-> msg.question]>>,
             err |-> "nil"]
       ELSE [req |-> NilMsg, resp |-> NilMsg, err |-> "nil"]

\* RequestHook: what it returns for the request msg
RequestHook(cfg, msg) ==
    IF cfg.disableFakePTR THEN [req |-> NilMsg, resp |-> NilMsg, err |-> "nil"]
    ELSE IF Len(msg.question) = 1 /\ msg.question[1].qtype = "PTR"
       THEN [req |-> NilMsg,
             resp |-> <<[id |-> msg.id, response |-> TRUE, recursionAvailable |-> TRUE,
                        rcode |-> "NXDOMAIN", question |-> msg.question]>>,
             err |-> "nil"]
       ELSE [req |-> NilMsg, resp |-> NilMsg, err |-> "nil"]

\* a request arrives at the proxy
proxyReceives(msg) ==
    /\ reqMsg' = msg
    /\ hookRet' = [called |-> FALSE]
    /\ UNCHANGED <<now, recVars, queryVars, appVars, fwVars, runVars, lockVars>>

\* the proxy invokes the request hook
proxyCallsHook ==
    /\ ~hookRet.called
    /\ hookRet' = [called |-> TRUE, ret |-> RequestHook(config, reqMsg), upstream |-> "undecided"]
    /\ UNCHANGED <<now, recVars, queryVars, appVars, fwVars, runVars, lockVars, reqMsg>>

\* the proxy forwards the request upstream unless the hook gave it a response
proxyForwards ==
    /\ hookRet.called
    /\ hookRet.upstream = "undecided"
    /\ hookRet' = [hookRet EXCEPT !.upstream = IF hookRet.ret.resp = NilMsg THEN "called" ELSE "skipped"]
    /\ UNCHANGED <<now, recVars, queryVars, appVars, fwVars, runVars, lockVars, reqMsg>>

InitHook ==
    /\ now = 0
    /\ aRecords = NewARecords
    /\ cnameRecords = NewCNameRecords
    /\ InitQuery
    /\ AppIdle
    /\ FwIdle
    /\ LockIdle
    /\ config \in [disableRemap53 : {FALSE}, disableFakePTR : BOOLEAN]
    /\ unprocessedGroups = <<>>
    /\ groups = <<>>
    /\ isRunning = FALSE
    /\ spc = "idle"
    /\ idx = 0
    /\ deferred = <<>>
    /\ panicking = FALSE
    /\ startErr = "nil"
    /\ result = "none"
    /\ run = [n |-> 0, looped |-> FALSE, cause |-> "none", cancelled |-> FALSE]
    /\ tdLog = <<>>
    /\ ctxDone = FALSE
    /\ newCtxDone = FALSE
    /\ listeners = <<>>
    /\ acceptor = <<>>
    /\ socket = "none"
    /\ socketFile = FALSE
    /\ linkSub = "none"
    /\ ipsets = {}
    /\ lastCall = NoCall
    /\ reqMsg \in Requests
    /\ hookRet = [called |-> FALSE]

NextHook ==
    \/ \E msg \in Requests : proxyReceives(msg)
    \/ proxyCallsHook
    \/ proxyForwards

SpecHook == InitHook /\ [][NextHook]_vars

----------------------------------------------------------------------------
(* Properties *)

\* the last handler called AddIP(addr, ttl) on group g
Added(g, addr, ttl) ==
    \E k \in 1..Len(lastOps) :
        lastOps[k] = [op |-> "AddIP", g |-> g, addr |-> addr, ttl |-> ttl]

AddedAny(g, addr) == \E k \in 1..Len(lastOps) :
    lastOps[k].op = "AddIP" /\ lastOps[k].g = g /\ lastOps[k].addr = addr

Deleted(g, addr) == \E k \in 1..Len(lastOps) :
    lastOps[k].op = "DelIP" /\ lastOps[k].g = g /\ lastOps[k].addr = addr

\* group g has an enabled rule matching one of names
GroupHits(g, names) == \E i \in 1..Len(rules[g]) : RuleHits(rules[g][i], names)

\* C1: handling an A or AAAA answer (name n, address a, TTL t) adds a to the set of
\* every group with an enabled rule matching a name of aliases(n), in the same step,
\* with the timeout t + additional_ttl, which is never below t.
C1_AnswerAddsWithFullTimeout ==
    lastAct.kind \in {"A", "AAAA"} =>
        \A g \in DOMAIN rules :
            GroupHits(g, GetAliases(cnameRecords, lastAct.name)) =>
                /\ Added(g, lastAct.addr, lastAct.t + additionalTTL)
                /\ \A k \in 1..Len(lastOps) : lastOps[k].ttl >= lastAct.t

\* the names with a live CNAME chain leading to X, and X
RECURSIVE ChainsToFrom(_, _)
ChainsToFrom(S, fuel) ==
    IF fuel = 0 THEN S
    ELSE ChainsToFrom(S \cup {n \in Names : \E m \in S : m \in LiveKeys(cnameRecords[n])}, fuel - 1)

ChainsTo(X) == ChainsToFrom({X}, Cardinality(Names))

\* C2: the alias query of the records store for X returns exactly X and every stored
\* name whose live CNAME chain leads to X.  (X itself is granted to the query: the
\* caller of getCNames puts it in front of the list.)
C2_AliasQueryIsReverseClosure ==
    (qpc = "done" /\ qrec) => ToSet(qresult) \cup {qname} = ChainsTo(qname)

\* C3: recursive CNAME resolution expands no name more than once, whatever the CNAME
\* map holds, cycles included.
C3_NoNameExpandedTwice == \A n \in Names : expanded[n] <= 1

\* C4: when a CNAME record (name CNAME target) is handled while the store holds a live
\* A record of target, every group with an enabled rule matching name has the address
\* of that record in its set at the end of that handling.
C4_CNameAfterAAdds ==
    lastAct.kind = "CNAME" =>
        \A g \in DOMAIN rules, a \in GetARecords(aRecords, lastAct.target) :
            GroupHits(g, {lastAct.name}) => ipset[g][a] # NoEntry

\* C5: a put never replaces the stored deadline of (name, addr) by an earlier one, so
\* of two puts with TTLs t1 < t2 the deadline of t2 stays whatever their order.
C5_PutKeepsLaterDeadline ==
    [][\A n \in Names, a \in Addrs :
          (aRecords[n][a] # NoRec /\ aRecords'[n][a] # NoRec) => aRecords'[n][a] >= aRecords[n][a]]_vars

\* C6: a second Sync of a group right after a Sync of it, nothing else having run,
\* calls neither AddIP nor DelIP.
C6_SyncIdempotent ==
    (lastAct.kind = "Sync" /\ lastAct.ok /\ lastAct.run = 2) => lastOps = <<>>

\* the remaining lifetime of the live records of addr under the domains g matches,
\* the one of the latest deadline
Remaining(g, addr) ==
    LET ds == {aRecords[d][addr] : d \in {x \in SyncDomains(g) : addr \in GetARecords(aRecords, x)}}
    IN (CHOOSE v \in ds : \A w \in ds : w <= v) - now

\* C7: after a Sync that returned nil the set holds exactly the wanted addresses: a
\* wanted address that was absent or had a shorter timeout was added, one with an
\* equal or longer timeout or none was left alone, an unwanted one was deleted.
C7_SyncReconciles ==
    (lastAct.kind = "Sync" /\ lastAct.ok) =>
        \A a \in Addrs :
            LET g == lastAct.g
                want == a \in SyncAddrs(g)
                before == lastAct.before[a]
            IN /\ (ipset[g][a] # NoEntry) <=> want
               /\ (want /\ before = NoEntry) => AddedAny(g, a)
               /\ (want /\ before >= 0 /\ before < Remaining(g, a)) => AddedAny(g, a)
               /\ (want /\ (before = NoTimeout \/ before >= Remaining(g, a))) => ~AddedAny(g, a)
               /\ (~want /\ before # NoEntry) => Deleted(g, a)

\* C8: a timeout passed to a set for an address taken from the store, by Sync or by
\* CNAME handling, is the record's remaining lifetime deadline - now; Sync keeps the
\* value of the later deadline when the address comes from several domains.
C8_TimeoutIsRemainingLifetime ==
    /\ lastAct.kind = "Sync" =>
          \A k \in 1..Len(lastOps) :
              lastOps[k].op = "AddIP" => lastOps[k].ttl = Remaining(lastAct.g, lastOps[k].addr)
    /\ lastAct.kind = "CNAME" =>
          \A k \in 1..Len(lastOps) :
              lastOps[k].ttl = aRecords[lastAct.name][lastOps[k].addr] - now

\* the fix-protect rules of group g that are in the kernel, in whatever form
FixRules(g) == {r \in fw : r.owner = g /\ r.table = "filter"}

\* C9: as long as nobody else flushed a table, the fix-protect rules of a group are
\* there if and only if the group is enabled and fix_protect is true: none is left
\* once the group is not enabled.
C9_FixProtectIffEnabled ==
    ~flushed =>
        \A g \in DOMAIN enabled :
            IF enabled[g] /\ fixProtect[g]
               THEN {StateNewRule("v4", g), PlainRule("v6", g)} \subseteq fw
               ELSE FixRules(g) = {}

\* the rules of group g in one family and table
OwnRules(g, fam, table) == {r \in fw : r.owner = g /\ r.fam = fam /\ r.table = table}

\* C10: after the handler of a netfilter.d message ran the hooks, an enabled group
\* has in the affected families and table exactly the rules Enable installs, in the
\* form Enable installs them.  (Stated for an app with a port-remap; without one
\* the handler calls a method of a nil pointer first, see NilHookOutcomes.)
C10_HookRestoresEnableRules ==
    (lastFw.kind = "NetfilterD" /\ dnsOverrider = "set") =>
        \A g \in DOMAIN enabled, fam \in Affected(lastFw.iptType) :
            enabled[g] => OwnRules(g, fam, lastFw.table)
                            = {r \in EnableAppends(g, "ok") : r.fam = fam /\ r.table = lastFw.table}

\* Start has returned nil from the event loop because the context was cancelled
StoppedByCancel == spc = "idle" /\ run.looped /\ run.cause = "ctx"

C12_SetupFailureRollsBack ==
    (spc = "idle" /\ run.cause = "setup") =>
        /\ ipsets = {}
        /\ \A g \in 1..Len(groups) : ~enabled[g]
        /\ fw \cap RemapRules = {}
        /\ PrefixOwned(fw) = {}

\* C13: AddGroup of a group whose id a group of the app has returns
\* ErrGroupIDConflict, AddGroup of a group with two equal rule ids (and a new id)
\* returns ErrRuleIDConflict; either way the group list is as before and no set or
\* binder was made.
C13_AddGroupConflictsRejected ==
    lastCall.fn = "AddGroup" =>
        LET before == lastCall.groups
            idTaken == \E i \in 1..Len(before) : before[i].id = lastCall.group.id
            ruleTwice == \E i, j \in 1..Len(lastCall.group.rules) :
                            i # j /\ lastCall.group.rules[i] = lastCall.group.rules[j]
        IN /\ idTaken => lastCall.err = "ErrGroupIDConflict"
           /\ (~idTaken /\ ruleTwice) => lastCall.err = "ErrRuleIDConflict"
           /\ (idTaken \/ ruleTwice) =>
                  /\ groups = before
                  /\ ipsets = lastCall.ipsets
                  /\ Len(enabled) = Len(before)
                  /\ Len(fixProtect) = Len(before)

\* both rejections are seen: here the one of a taken id, while the app runs
C13_Witness ==
    /\ lastCall.fn = "AddGroup"
    /\ lastCall.err = "ErrGroupIDConflict"
    /\ lastCall.groups # <<>>
    /\ spc = "loop"

\* the request is a single PTR question and fake-PTR is not disabled
SinglePTR == ~config.disableFakePTR /\ Len(reqMsg.question) = 1 /\ reqMsg.question[1].qtype = "PTR"

CancelledInLoop(r) == spc = "loop" /\ ctxDone /\ run.n = r

\* C16 as stated: once the context is cancelled while the app is in its event
\* loop, the loop exits with a nil result.
C16_CancelExitsNil ==
    (spc = "idle" /\ run.looped /\ run.cancelled /\ run.cause \in {"ctx", "errChan"}) => result = "nil"

\* C16, amended: once the context is cancelled while the app is in its event loop,
\* Start eventually returns (nil when the loop took the ctx.Done case), with the
\* derived context cancelled and every deferred call run, and the acceptor
\* goroutine eventually ends.
C16_CancelledLoopExits ==
    \A r \in 1..MaxRuns :
        /\ CancelledInLoop(r) ~>
              (/\ spc = "idle"
               /\ run.n = r
               /\ deferred = <<>>
               /\ newCtxDone
               /\ socket = "closed"
               /\ linkSub = "closed"
               /\ (run.cause = "ctx" => result = "nil"))
        /\ CancelledInLoop(r) ~> (acceptor[r] = "exited")

\* a cancelled run has returned nil and its acceptor has ended
C16_Witness ==
    /\ spc = "idle"
    /\ run.looped
    /\ run.cancelled
    /\ run.cause = "ctx"
    /\ result = "nil"
    /\ acceptor[run.n] = "exited"

Justified(g, addr) ==
    \E n \in Names :
        /\ aRecords[n][addr] # NoRec
        /\ aRecords[n][addr] > now
        /\ \E i \in 1..Len(rules[g]) :
              /\ rules[g][i].enabled
              /\ rules[g][i].match \cap GetAliases(cnameRecords, n) # {}

C18_MutationsUnderExclusiveLock ==
    /\ \A g \in Goroutines : Mutating(g) => lock.writer = g
    /\ ~Race

\* C19: a read of key domainName returns no entry with deadline <= now and
\* removes every such entry of that key, deadline = now included; the entries
\* with deadline > now are returned and stay as they are.
C19_LazyExpiry ==
    [][\A g \in Goroutines :
          (gpc[g] = "locked" /\ gpc'[g] = "ret") =>
              LET d == gop[g].name
              IN IF gop[g].fn = "GetARecords"
                    THEN /\ aRecords'[d] = DropDead(aRecords[d])
                         /\ LiveEntries(aRecords[d]) \subseteq gret'[g]
                         /\ ~gop[g].recursive => gret'[g] = LiveEntries(aRecords[d])
                    ELSE /\ cnameRecords'[d] = DropDead(cnameRecords[d])
                         /\ LiveEntries(cnameRecords[d]) \subseteq gret'[g]
                         /\ ~gop[g].recursive => gret'[g] = LiveEntries(cnameRecords[d])]_vars

\* C21: when AddGroup returns an error, the group list of the app is the one
\* before the call and no IP-set the call created is left.
C21_AddGroupAllOrNothing ==
    (lastCall.fn = "AddGroup" /\ lastCall.err # "nil") =>
        (groups = lastCall.groups /\ ipsets = lastCall.ipsets)

\* C22: no listener goroutine is blocked for ever in errChan <- err.  The only
\* receiver of the channel of run r is the event loop of that run, so a listener
\* that is sending while its start has left its body (returned or panicked) can
\* never complete the send.
C22_NoListenerBlockedForever ==
    \A r \in 1..MaxRuns, l \in Listeners :
        listeners[r][l] = "sending" => (r = run.n /\ spc \notin {"unwind", "idle", "dead"})

\* the imported configuration has no two groups with one id and no group with
\* two rules of one id
ConfigClean ==
    /\ \A i, j \in 1..Len(unprocessedGroups) :
          unprocessedGroups[i].id = unprocessedGroups[j].id => i = j
    /\ \A i \in 1..Len(unprocessedGroups) : ~RuleIDConflict(unprocessedGroups[i])

\* C23: a Start that follows a Start that has returned, on the same app with the
\* same imported configuration, is not rejected (neither as already running nor
\* for a group it has added before), and once it is in its event loop every
\* configured group is set up and enabled again.
C23_StartRerunnable ==
    (run.n > 1 /\ ConfigClean) =>
        /\ startErr \notin {"ErrAlreadyRunning", "ErrGroupIDConflict"}
        /\ spc = "loop" =>
              \A i \in 1..Len(unprocessedGroups) :
                  \E g \in 1..Len(groups) :
                      /\ groups[g] = unprocessedGroups[i]
                      /\ enabled[g]
                      /\ groups[g].id \in ipsets

====
